---- MODULE Spec2Model ----
(***************************************************************************)
(* Model of the email-campaign delivery subsystem of the newsletter app:   *)
(* NewsletterService.send_campaign and _get_target_subscribers             *)
(* (newsletter/services.py), the EmailCampaign / NewsletterSubscriber /    *)
(* NewsletterActivity rows (newsletter/models.py) and the operations on    *)
(* the subscriber store that run next to a send (newsletter/admin.py,      *)
(* newsletter/views_backup.py).                                            *)
(*                                                                         *)
(* Every ORM query of send_campaign is one atomic step; Python statements  *)
(* that touch only the caller's in-memory objects are folded into the      *)
(* query that follows or precedes them.  Model.save() writes every column  *)
(* of the in-memory instance; QuerySet.update() writes only the named      *)
(* column.                                                                 *)
(***************************************************************************)
EXTENDS Integers, Naturals, Sequences, FiniteSets, Bags, TLC

\* ---------------------------------------------------------------- bounds
MaxSubs == 3
MaxCalls == 2
MaxEnvOps == 1
MaxCounter == 100
MaxTemplates == 4

Procs == {"p1", "p2"}
Categories == {"finance", "tech"}

SubIds == 1..MaxSubs
InitSubIds == {1, 2}
ExistingCampaign == 1
MissingCampaign == 2
CampaignIds == {ExistingCampaign, MissingCampaign}

NullTime == 0
NoCampaignId == 0
NoSubscriberId == 0

\* ---------------------------------------------------------------- rows
SUBSCRIPTION_STATUS == {"active", "unsubscribed", "bounced", "spam_complaint"}

CAMPAIGN_STATUS == {"draft", "scheduled", "sending", "sent", "paused", "cancelled"}

NewsletterSubscriber(status, is_verified) ==
    [status |-> status,
     is_verified |-> is_verified,
     total_emails_sent |-> 0,
     unsubscribed_at |-> NullTime]

EmailCampaign(status, send_to_all) ==
    [status |-> status,
     send_to_all |-> send_to_all,
     sent_at |-> NullTime,
     total_recipients |-> 0,
     total_sent |-> 0,
     total_delivered |-> 0,
     total_bounced |-> 0,
     total_opened |-> 0,
     total_clicked |-> 0,
     total_unsubscribed |-> 0,
     total_spam_complaints |-> 0]

NewsletterActivity(activity_type, subscriber, campaign_id) ==
    [activity_type |-> activity_type,
     subscriber |-> subscriber,
     campaign |-> campaign_id]

NoCampaign == [status |-> "none"]
NotResolved == [campaign |-> NoCampaignId, audience |-> {}]
NoQuery == [by_categories |-> FALSE, by_subscribers |-> FALSE, for_campaign |-> NoCampaignId]

VARIABLES
    campaigns,              \* EmailCampaign table: id -> row
    target_categories,      \* EmailCampaign.target_categories (many-to-many): id -> set of categories
    target_subscribers,     \* EmailCampaign.target_subscribers (many-to-many): id -> set of subscriber ids
    subscribers,            \* NewsletterSubscriber table: id -> row
    subscription_interests, \* NewsletterSubscriber.subscription_interests (many-to-many)
    ledger,                 \* NewsletterActivity table, a bag of rows
    outbox,                 \* campaign emails accepted by the mail transport, a bag of [to, campaign]
    clock,                  \* timezone.now(); advances when a send finishes
    pc,                     \* position of each caller inside send_campaign
    cid,                    \* campaign_id argument of the caller's current (or last) call
    campaign,               \* the caller's in-memory EmailCampaign instance
    qs,                     \* the caller's lazy `subscribers` QuerySet (which filters were chained)
    cache,                  \* rows fetched for the delivery loop and not yet processed
    sent_count,             \* local sent_count
    result,                 \* what the caller's last call returned
    calls,                  \* send_campaign calls started by each caller
    envOps,                 \* operations on the subscriber store performed so far
    resolved,               \* last audience returned to a direct caller of _get_target_subscribers
    test_result,            \* what the send_test_email calls returned, oldest first
    responses,              \* what the read-only requests returned, oldest first
    templates,              \* EmailTemplate table: id -> row
    recipients,             \* history: subscriber ids fetched for the loop of the current call
    attempted,              \* history: subscriber ids whose delivery was attempted in the current call
    failed,                 \* history: subscriber ids whose transport send raised in the current call
    stable,                 \* history: the set of active, verified subscribers has not changed
                            \* since the current call loaded its campaign
    starts                  \* history: number of times each campaign was saved with status 'sending'

dbVars == <<campaigns, target_categories, target_subscribers, subscribers,
            subscription_interests, ledger, outbox, clock>>
callVars == <<pc, cid, campaign, qs, cache, sent_count, result, calls>>
histVars == <<recipients, attempted, failed, stable, starts>>
vars == <<dbVars, callVars, histVars, envOps, resolved, test_result, responses, templates>>

\* ---------------------------------------------------------------- audience
\* NewsletterSubscriber.objects.filter(status='active', is_verified=True)
BaseEligible ==
    {s \in DOMAIN subscribers :
        subscribers[s].status = "active" /\ subscribers[s].is_verified}

\* History kept by every write to the subscriber table: a running call stays
\* `stable` as long as the set of active, verified subscribers is the same.
ObserveStore ==
    stable' = [p \in Procs |-> stable[p] /\ (pc[p] = "idle" \/ BaseEligible' = BaseEligible)]

\* Changed: no explicit subscribers and no categories chain a filter that
\* matches nothing.
GetTargetSubscribersStrict(c) ==
    [by_categories |-> ~campaigns[c].send_to_all,
     by_subscribers |-> ~campaigns[c].send_to_all /\ target_subscribers[c] # {},
     for_campaign |-> c]

\* Changed: the explicit list is skipped when a category filter was chained
\* (elif instead of if).
GetTargetSubscribersElif(c) ==
    [by_categories |-> ~campaigns[c].send_to_all /\ target_categories[c] # {},
     by_subscribers |-> ~campaigns[c].send_to_all /\ target_categories[c] = {}
                        /\ target_subscribers[c] # {},
     for_campaign |-> c]

\* Changed: the category and subscriber filters are chained whatever
\* send_to_all says.
GetTargetSubscribersAlwaysFilters(c) ==
    [by_categories |-> target_categories[c] # {},
     by_subscribers |-> target_subscribers[c] # {},
     for_campaign |-> c]

\* The filters that _get_target_subscribers chains onto the base queryset,
\* decided when it is called.
GetTargetSubscribers(c) ==
    [by_categories |-> ~campaigns[c].send_to_all /\ target_categories[c] # {},
     by_subscribers |-> ~campaigns[c].send_to_all /\ target_subscribers[c] # {},
     for_campaign |-> c]

\* Changed: the explicit list is added to the result instead of
\* narrowing it.
EvaluateListAdds(q) ==
    {s \in DOMAIN subscribers :
        \/ /\ s \in BaseEligible
           /\ (q.by_categories =>
                 subscription_interests[s] \cap target_categories[q.for_campaign] # {})
        \/ q.by_subscribers /\ s \in target_subscribers[q.for_campaign]}

\* Evaluation of the lazy queryset against the tables as they are now.
Evaluate(q) ==
    {s \in BaseEligible :
        /\ (q.by_categories =>
              subscription_interests[s] \cap target_categories[q.for_campaign] # {})
        /\ (q.by_subscribers => s \in target_subscribers[q.for_campaign])}

\* _get_target_subscribers(campaign), evaluated at once.
Audience(c) == Evaluate(GetTargetSubscribers(c))

\* Sum of a counter over a set of callers.
RECURSIVE Total(_, _)
Total(f, S) ==
    IF S = {} THEN 0
    ELSE LET x == CHOOSE y \in S : TRUE
         IN f[x] + Total(f, S \ {x})

\* Iteration order of the queryset: Meta.ordering = ['-subscribed_at'];
\* ids are handed out in subscription order, so newest first is highest id first.
Newest(S) == CHOOSE m \in S : \A x \in S : x <= m

RECURSIVE Ordered(_)
Ordered(S) ==
    IF S = {} THEN <<>>
    ELSE <<Newest(S)>> \o Ordered(S \ {Newest(S)})

\* Changed: the category filter is chained without .distinct().
DistinctOmitted(rows) == rows

\* .distinct() (line 109): SELECT DISTINCT keeps one copy of each row.
Distinct(rows) == SetToBag(BagToSet(rows))

\* The rows the query returns: subscription_interests__in joins the
\* interests table, one row per (subscriber, matching category) pair, and
\* the category branch ends with .distinct().
Rows(q) ==
    LET joined == [s \in Evaluate(q) |->
                     IF q.by_categories
                       THEN Cardinality(subscription_interests[s]
                                        \cap target_categories[q.for_campaign])
                       ELSE 1]
    IN IF q.by_categories THEN Distinct(joined) ELSE joined

\* queryset.count()
Count(q) == BagCardinality(Rows(q))

RECURSIVE Repeated(_, _)
Repeated(x, n) == IF n = 0 THEN <<>> ELSE <<x>> \o Repeated(x, n - 1)

RECURSIVE OrderedRows(_, _)
OrderedRows(order, rows) ==
    IF order = <<>> THEN <<>>
    ELSE Repeated(Head(order), rows[Head(order)]) \o OrderedRows(Tail(order), rows)

\* list(queryset): every returned row, copied into memory.
Fetch(q) ==
    LET order == OrderedRows(Ordered(Evaluate(q)), Rows(q))
    IN [i \in 1..Len(order) |-> [id |-> order[i], row |-> subscribers[order[i]]]]

\* ---------------------------------------------------------------- initial states
InitialInterests(s) ==
    IF s = 1 THEN {"finance"} ELSE IF s = 2 THEN {"finance", "tech"} ELSE {}

\* Callers, history and counters before any call.
InitCallers ==
    /\ ledger = EmptyBag
    /\ outbox = EmptyBag
    /\ clock = 1
    /\ pc = [p \in Procs |-> "idle"]
    /\ cid = [p \in Procs |-> NoCampaignId]
    /\ campaign = [p \in Procs |-> NoCampaign]
    /\ qs = [p \in Procs |-> NoQuery]
    /\ cache = [p \in Procs |-> <<>>]
    /\ sent_count = [p \in Procs |-> 0]
    /\ result = [p \in Procs |-> "none"]
    /\ calls = [p \in Procs |-> 0]
    /\ envOps = 0
    /\ resolved = NotResolved
    /\ test_result = <<>>
    /\ responses = <<>>
    /\ recipients = [p \in Procs |-> {}]
    /\ attempted = [p \in Procs |-> {}]
    /\ failed = [p \in Procs |-> {}]
    /\ stable = [p \in Procs |-> TRUE]
    /\ starts = [c \in CampaignIds |-> 0]

\* One stored campaign: a draft with one of the targeting rules below over
\* two stored subscribers (both eligible, or the second not verified or
\* unsubscribed), or a campaign in another status with the default
\* rule (send_to_all = True) over two eligible subscribers.
InitialRules ==
    {[all |-> TRUE,  cats |-> {"finance"}, subs |-> {1}],
     [all |-> FALSE, cats |-> {},          subs |-> {}],
     [all |-> FALSE, cats |-> {"tech"},    subs |-> {}],
     [all |-> FALSE, cats |-> {"finance"}, subs |-> {1}]}

DefaultRule == [all |-> TRUE, cats |-> {}, subs |-> {}]

\* Both categories and an explicit list: the second subscriber is interested
\* in both categories and is on the list.
OverlapRule == [all |-> FALSE, cats |-> {"finance", "tech"}, subs |-> {2}]

InitialStores ==
    {<<NewsletterSubscriber("active", TRUE), NewsletterSubscriber("active", TRUE)>>,
     <<NewsletterSubscriber("active", TRUE), NewsletterSubscriber("active", FALSE)>>,
     <<NewsletterSubscriber("active", TRUE), NewsletterSubscriber("unsubscribed", TRUE)>>}

Init ==
    /\ \E st \in CAMPAIGN_STATUS, rule \in InitialRules \cup {DefaultRule},
          store \in InitialStores :
          /\ st = "draft" => rule \in InitialRules
          /\ st # "draft" =>
                /\ rule = DefaultRule
                /\ store[2] = NewsletterSubscriber("active", TRUE)
          /\ campaigns = [c \in {ExistingCampaign} |-> EmailCampaign(st, rule.all)]
          /\ target_categories = [c \in {ExistingCampaign} |-> rule.cats]
          /\ target_subscribers = [c \in {ExistingCampaign} |-> rule.subs]
          /\ subscribers = [s \in InitSubIds |-> store[s]]
    /\ subscription_interests = [s \in SubIds |-> InitialInterests(s)]
    /\ InitCallers
    /\ templates = <<>>

\* ---------------------------------------------------------------- send_campaign
\* Changed: a paused campaign is accepted as well.
IsSendableOrPaused(row) == row.status \in {"draft", "paused"}

\* Line 24: the status test on the loaded instance.
IsSendable(row) == row.status = "draft"

\* The call returns; its local objects are gone.
Return(p, outcome) ==
    /\ result' = [result EXCEPT ![p] = outcome]
    /\ pc' = [pc EXCEPT ![p] = "idle"]
    /\ campaign' = [campaign EXCEPT ![p] = NoCampaign]
    /\ qs' = [qs EXCEPT ![p] = NoQuery]
    /\ cache' = [cache EXCEPT ![p] = <<>>]
    /\ sent_count' = [sent_count EXCEPT ![p] = 0]
    /\ recipients' = [recipients EXCEPT ![p] = {}]
    /\ attempted' = [attempted EXCEPT ![p] = {}]
    /\ failed' = [failed EXCEPT ![p] = {}]
    /\ stable' = [stable EXCEPT ![p] = TRUE]

\* Lines 22-25 and 66-70: load the row, reject a missing campaign and one that
\* is not a draft.  Line 28: _get_target_subscribers builds the lazy queryset.
send_campaign_load(p, c) ==
    /\ pc[p] = "idle"
    /\ Total(calls, Procs) < MaxCalls
    /\ calls' = [calls EXCEPT ![p] = @ + 1]
    /\ cid' = [cid EXCEPT ![p] = c]
    /\ IF c \notin DOMAIN campaigns
         THEN Return(p, "not_found")
         ELSE IF ~IsSendable(campaigns[c])
         THEN Return(p, "invalid_state")
         ELSE /\ pc' = [pc EXCEPT ![p] = "exists"]
              /\ result' = [result EXCEPT ![p] = "running"]
              /\ campaign' = [campaign EXCEPT ![p] = campaigns[c]]
              /\ qs' = [qs EXCEPT ![p] = GetTargetSubscribers(c)]
              /\ stable' = [stable EXCEPT ![p] = TRUE]
              /\ UNCHANGED <<cache, sent_count, recipients, attempted, failed>>
    /\ UNCHANGED <<dbVars, envOps, resolved, test_result, responses, templates, starts>>

\* Changed: the emptiness test always passes.
ExistsAlways(q) == TRUE

\* QuerySet.exists()
Exists(q) == Evaluate(q) # {}

\* Lines 30-31: subscribers.exists()
send_campaign_exists(p) ==
    /\ pc[p] = "exists"
    /\ IF ~Exists(qs[p])
         THEN Return(p, "empty_audience")
         ELSE /\ pc' = [pc EXCEPT ![p] = "count"]
              /\ UNCHANGED <<result, campaign, qs, cache, sent_count,
                             recipients, attempted, failed, stable>>
    /\ UNCHANGED <<dbVars, cid, calls, envOps, resolved, test_result, responses, templates, starts>>

\* Lines 34-36: status = 'sending', total_recipients = subscribers.count(),
\* campaign.save().  save() writes every column of the in-memory instance.
\* The count reads only the subscriber table and the save writes only the
\* campaign row, so the two queries are taken as one step.
send_campaign_save_sending(p) ==
    /\ pc[p] = "count"
    /\ campaign' = [campaign EXCEPT ![p] =
          [@ EXCEPT !.status = "sending",
                    !.total_recipients = Count(qs[p])]]
    /\ campaigns' = [campaigns EXCEPT ![cid[p]] = campaign'[p]]
    /\ starts' = [starts EXCEPT ![cid[p]] = @ + 1]
    /\ pc' = [pc EXCEPT ![p] = "iterate"]
    /\ UNCHANGED <<target_categories, target_subscribers, subscribers,
                   subscription_interests, ledger, outbox, clock,
                   cid, qs, cache, sent_count, result, calls, envOps, resolved, test_result, responses, templates,
                   recipients, attempted, failed, stable>>

\* Line 40: `for subscriber in subscribers` runs the query once more and
\* keeps the fetched rows.
send_campaign_iterate(p) ==
    /\ pc[p] = "iterate"
    /\ cache' = [cache EXCEPT ![p] = Fetch(qs[p])]
    /\ recipients' = [recipients EXCEPT ![p] = Evaluate(qs[p])]
    /\ pc' = [pc EXCEPT ![p] = "deliver"]
    /\ UNCHANGED <<dbVars, cid, campaign, qs, sent_count, result, calls, envOps, resolved, test_result, responses, templates,
                   attempted, failed, stable, starts>>

\* Lines 42-47 with _send_email_to_subscriber (lines 121-149), the transport
\* accepting the message: email.send(), the 'email_sent' activity, sent_count,
\* and subscriber.save() of the fetched row with total_emails_sent + 1.
SavedSubscriber(row) == [row EXCEPT !.total_emails_sent = @ + 1]

deliver_sent(p) ==
    /\ pc[p] = "deliver"
    /\ cache[p] # <<>>
    /\ Head(cache[p]).id \in DOMAIN subscribers
    /\ LET subscriber == Head(cache[p])
       IN /\ outbox' = outbox (+) SetToBag({[to |-> subscriber.id, campaign |-> cid[p]]})
          /\ ledger' = ledger (+)
                SetToBag({NewsletterActivity("email_sent", subscriber.id, cid[p])})
          /\ subscribers' = [subscribers EXCEPT ![subscriber.id] = SavedSubscriber(subscriber.row)]
          /\ attempted' = [attempted EXCEPT ![p] = @ \cup {subscriber.id}]
    /\ sent_count' = [sent_count EXCEPT ![p] = @ + 1]
    /\ cache' = [cache EXCEPT ![p] = Tail(@)]
    /\ UNCHANGED <<campaigns, target_categories, target_subscribers,
                   subscription_interests, clock,
                   pc, cid, campaign, qs, result, calls, envOps, resolved, test_result, responses, templates,
                   recipients, failed, starts>>
    /\ ObserveStore

\* Changed: the error leaves the loop (break instead of continue).
TransportErrorBreaks(p) ==
    /\ UNCHANGED <<subscribers, ledger, outbox, sent_count>>
    /\ cache' = [cache EXCEPT ![p] = <<>>]
    /\ UNCHANGED <<pc, result>>

\* Lines 49-51 with lines 151-153: email.send() raises; the error is logged
\* and the loop continues with the next row.
TransportErrorEffect(p) ==
    /\ UNCHANGED <<subscribers, ledger, outbox, sent_count>>
    /\ cache' = [cache EXCEPT ![p] = Tail(@)]
    /\ UNCHANGED <<pc, result>>

deliver_transport_error(p) ==
    /\ pc[p] = "deliver"
    /\ cache[p] # <<>>
    /\ TransportErrorEffect(p)
    /\ attempted' = [attempted EXCEPT ![p] = @ \cup {Head(cache[p]).id}]
    /\ failed' = [failed EXCEPT ![p] = @ \cup {Head(cache[p]).id}]
    /\ UNCHANGED <<campaigns, target_categories, target_subscribers,
                   subscription_interests, clock,
                   cid, campaign, qs, calls, envOps, resolved, test_result, responses, templates, recipients, stable, starts>>

\* Lines 140-153 and 49-51: email.send() succeeds and
\* NewsletterActivity.objects.create raises; the error is re-raised by
\* _send_email_to_subscriber, logged by the loop, and the loop continues.
\* Neither sent_count nor the subscriber row is touched.
deliver_ledger_error(p) ==
    /\ pc[p] = "deliver"
    /\ cache[p] # <<>>
    /\ outbox' = outbox (+) SetToBag({[to |-> Head(cache[p]).id, campaign |-> cid[p]]})
    /\ cache' = [cache EXCEPT ![p] = Tail(@)]
    /\ attempted' = [attempted EXCEPT ![p] = @ \cup {Head(cache[p]).id}]
    /\ UNCHANGED <<campaigns, target_categories, target_subscribers, subscribers,
                   subscription_interests, ledger, clock,
                   pc, cid, campaign, qs, sent_count, result, calls, envOps,
                   resolved, test_result, responses, templates, recipients, failed, stable, starts>>

\* Changed: the error of subscriber.save() is not caught by the loop; it
\* reaches the handler of line 68 and the call returns a failure.
SaveErrorEscapes(p) == Return(p, "failed")

\* Lines 43-51: subscriber.save() raises after sent_count += 1; the error is
\* logged and the loop continues with the next row.
SaveErrorEffect(p) ==
    /\ sent_count' = [sent_count EXCEPT ![p] = @ + 1]
    /\ cache' = [cache EXCEPT ![p] = Tail(@)]
    /\ attempted' = [attempted EXCEPT ![p] = @ \cup {Head(cache[p]).id}]
    /\ UNCHANGED <<result, pc, campaign, qs, recipients, failed, stable>>

\* Lines 42-51: the mail is sent and the 'email_sent' activity is created,
\* then subscriber.save() raises.
deliver_save_error(p) ==
    /\ pc[p] = "deliver"
    /\ cache[p] # <<>>
    /\ Head(cache[p]).id \in DOMAIN subscribers
    /\ outbox' = outbox (+) SetToBag({[to |-> Head(cache[p]).id, campaign |-> cid[p]]})
    /\ ledger' = ledger (+)
          SetToBag({NewsletterActivity("email_sent", Head(cache[p]).id, cid[p])})
    /\ SaveErrorEffect(p)
    /\ UNCHANGED <<campaigns, target_categories, target_subscribers, subscribers,
                   subscription_interests, clock,
                   cid, calls, envOps, resolved, test_result, responses, templates, starts>>

\* Changed: total_sent is taken from total_recipients.
FinishedCampaignCountsAll(row, count, now) ==
    [row EXCEPT !.status = "sent", !.total_sent = row.total_recipients, !.sent_at = now]

\* Changed: the final save leaves sent_at as it was.
FinishedCampaignWithoutSentAt(row, count, now) ==
    [row EXCEPT !.status = "sent", !.total_sent = count]

\* Lines 54-56: status = 'sent', total_sent = sent_count, sent_at = now.
FinishedCampaign(row, count, now) ==
    [row EXCEPT !.status = "sent", !.total_sent = count, !.sent_at = now]

\* Lines 54-64: the final save() and the success result.
send_campaign_finish(p) ==
    /\ pc[p] = "deliver"
    /\ cache[p] = <<>>
    /\ campaigns' = [campaigns EXCEPT ![cid[p]] =
          FinishedCampaign(campaign[p], sent_count[p], clock)]
    /\ clock' = clock + 1
    /\ Return(p, "success")
    /\ UNCHANGED <<target_categories, target_subscribers, subscribers,
                   subscription_interests, ledger, outbox,
                   cid, calls, envOps, resolved, test_result, responses, templates, starts>>

\* ---------------------------------------------------------------- subscriber store
\* SubscribeView.post (views_backup.py lines 29-41): a new row, active and
\* verified at once.
Subscribe ==
    /\ envOps < MaxEnvOps
    /\ \E s \in SubIds \ DOMAIN subscribers :
          /\ \A t \in SubIds \ DOMAIN subscribers : s <= t
          /\ subscribers' = [t \in DOMAIN subscribers \cup {s} |->
                IF t = s THEN NewsletterSubscriber("active", TRUE) ELSE subscribers[t]]
    /\ envOps' = envOps + 1
    /\ UNCHANGED <<resolved, test_result, responses, templates>>
    /\ UNCHANGED <<campaigns, target_categories, target_subscribers,
                   subscription_interests, ledger, outbox, clock, callVars,
                   recipients, attempted, failed, starts>>
    /\ ObserveStore

\* NewsletterSubscriber.unsubscribe (models.py lines 103-113)
unsubscribe(s) ==
    /\ envOps < MaxEnvOps
    /\ s \in DOMAIN subscribers
    /\ subscribers' = [subscribers EXCEPT ![s] =
          [@ EXCEPT !.status = "unsubscribed", !.unsubscribed_at = clock]]
    /\ ledger' = ledger (+) SetToBag({NewsletterActivity("unsubscription", s, NoCampaignId)})
    /\ envOps' = envOps + 1
    /\ UNCHANGED <<resolved, test_result, responses, templates>>
    /\ UNCHANGED <<campaigns, target_categories, target_subscribers,
                   subscription_interests, outbox, clock, callVars,
                   recipients, attempted, failed, starts>>
    /\ ObserveStore

\* NewsletterSubscriberAdmin.activate_subscribers (admin.py lines 78-80):
\* queryset.update(status='active') writes the status column only.
activate_subscribers(S) ==
    /\ envOps < MaxEnvOps
    /\ S # {} /\ S \subseteq DOMAIN subscribers
    /\ subscribers' = [s \in DOMAIN subscribers |->
          IF s \in S THEN [subscribers[s] EXCEPT !.status = "active"] ELSE subscribers[s]]
    /\ envOps' = envOps + 1
    /\ UNCHANGED <<resolved, test_result, responses, templates>>
    /\ UNCHANGED <<campaigns, target_categories, target_subscribers,
                   subscription_interests, ledger, outbox, clock, callVars,
                   recipients, attempted, failed, starts>>
    /\ ObserveStore

\* EditSubscriberView.post (views_backup.py lines 314-338): status and
\* is_verified from the form, then the interests; used here to verify or
\* un-verify a subscriber.
EditSubscriber(s, status, is_verified, interests) ==
    /\ envOps < MaxEnvOps
    /\ s \in DOMAIN subscribers
    /\ subscribers' = [subscribers EXCEPT ![s] =
          [@ EXCEPT !.status = status, !.is_verified = is_verified]]
    /\ subscription_interests' = [subscription_interests EXCEPT ![s] = interests]
    /\ envOps' = envOps + 1
    /\ UNCHANGED <<resolved, test_result, responses, templates>>
    /\ UNCHANGED <<campaigns, target_categories, target_subscribers,
                   ledger, outbox, clock, callVars,
                   recipients, attempted, failed, starts>>
    /\ ObserveStore

\* Inputs of the store operations: one subscriber at a time; the admin
\* action is applied to a subscriber that is not active, the edit form is
\* posted with the is_verified box flipped and the other fields as stored.
StoreOp ==
    \/ Subscribe
    \/ \E s \in SubIds : unsubscribe(s)
    \/ \E s \in SubIds :
          /\ s \in DOMAIN subscribers
          /\ subscribers[s].status # "active"
          /\ activate_subscribers({s})
    \/ \E s \in SubIds :
          /\ s \in DOMAIN subscribers
          /\ EditSubscriber(s, subscribers[s].status, ~subscribers[s].is_verified,
                            subscription_interests[s])

\* The callers are interchangeable: the second one makes its first call
\* only after the first one has made a call.
FirstCaller == "p1"
MayCall(p) == p = FirstCaller \/ calls[FirstCaller] > 0

Next ==
    \/ \E p \in Procs, c \in CampaignIds : MayCall(p) /\ send_campaign_load(p, c)
    \/ \E p \in Procs : send_campaign_exists(p)
    \/ \E p \in Procs : send_campaign_save_sending(p)
    \/ \E p \in Procs : send_campaign_iterate(p)
    \/ \E p \in Procs : deliver_sent(p)
    \/ \E p \in Procs : deliver_transport_error(p)
    \/ \E p \in Procs : send_campaign_finish(p)
    \/ StoreOp

Spec == Init /\ [][Next]_vars

TypeOK ==
    /\ \A c \in DOMAIN campaigns : campaigns[c].status \in CAMPAIGN_STATUS
    /\ \A s \in DOMAIN subscribers : subscribers[s].status \in SUBSCRIPTION_STATUS
    /\ \A p \in Procs : pc[p] \in {"idle", "exists", "count", "iterate", "deliver"}

\* ---------------------------------------------------------------- send_campaign with failing writes
\* The steps of a call that has passed the status test.
CallStep(p) ==
    \/ send_campaign_exists(p)
    \/ send_campaign_save_sending(p)
    \/ send_campaign_iterate(p)
    \/ deliver_sent(p)
    \/ deliver_transport_error(p)
    \/ deliver_ledger_error(p)
    \/ deliver_save_error(p)
    \/ send_campaign_finish(p)

\* A draft with any of the targeting rules over any of the stores.
InitFaults ==
    /\ \E rule \in InitialRules \cup {OverlapRule}, store \in InitialStores :
          /\ campaigns = [c \in {ExistingCampaign} |-> EmailCampaign("draft", rule.all)]
          /\ target_categories = [c \in {ExistingCampaign} |-> rule.cats]
          /\ target_subscribers = [c \in {ExistingCampaign} |-> rule.subs]
          /\ subscribers = [s \in InitSubIds |-> store[s]]
    /\ subscription_interests = [s \in SubIds |-> InitialInterests(s)]
    /\ InitCallers
    /\ templates = <<>>

NextFaults ==
    \/ \E p \in Procs, c \in CampaignIds : MayCall(p) /\ send_campaign_load(p, c)
    \/ \E p \in Procs : CallStep(p)

\* send_campaign is a synchronous call over a finite list of fetched rows:
\* a call that has started keeps taking its steps.
SpecFaults ==
    /\ InitFaults
    /\ [][NextFaults]_vars
    /\ \A p \in Procs : WF_vars(CallStep(p))

\* ---------------------------------------------------------------- admin operations
\* EmailCampaignAdmin.duplicate_campaign (admin.py lines 176-185): pk = None,
\* status = 'draft', sent_at = None, save().  The copy is a new row with every
\* other column of the original; the many-to-many rows belong to the
\* original's pk and are not copied.
DuplicatedCampaign(row) == [row EXCEPT !.status = "draft", !.sent_at = NullTime]

duplicate_campaign(c) ==
    /\ envOps < MaxEnvOps
    /\ c \in DOMAIN campaigns
    /\ \E new \in CampaignIds \ DOMAIN campaigns :
          /\ \A other \in CampaignIds \ DOMAIN campaigns : new <= other
          /\ campaigns' = [x \in DOMAIN campaigns \cup {new} |->
                IF x = new THEN DuplicatedCampaign(campaigns[c]) ELSE campaigns[x]]
          /\ target_categories' = [x \in DOMAIN campaigns \cup {new} |->
                IF x = new THEN {} ELSE target_categories[x]]
          /\ target_subscribers' = [x \in DOMAIN campaigns \cup {new} |->
                IF x = new THEN {} ELSE target_subscribers[x]]
    /\ envOps' = envOps + 1
    /\ UNCHANGED <<subscribers, subscription_interests, ledger, outbox, clock,
                   callVars, histVars, resolved, test_result, responses, templates>>

\* Changed: the activity of the test recipient is stored and the call
\* reports success.
TestEmailLogged(c) ==
    /\ ledger' = ledger (+) SetToBag({NewsletterActivity("email_sent", NoSubscriberId, c)})
    /\ test_result' = Append(test_result, [campaign |-> c, outcome |-> "success"])

\* Lines 143-153 and 93-95 for the test recipient: the NewsletterSubscriber
\* built at lines 78-82 is never saved, NewsletterActivity.objects.create
\* refuses the unsaved related object, the error is re-raised and
\* send_test_email returns {'success': False}.
TestEmailAfterSend(c) ==
    /\ ledger' = ledger
    /\ test_result' = Append(test_result, [campaign |-> c, outcome |-> "failed"])

\* NewsletterService.send_test_email (services.py lines 72-95); `accepted`
\* is whether email.send() succeeds.
send_test_email(c, accepted) ==
    /\ envOps < MaxEnvOps
    /\ envOps' = envOps + 1
    /\ IF c \notin DOMAIN campaigns
         THEN /\ test_result' = Append(test_result, [campaign |-> c, outcome |-> "not_found"])
              /\ UNCHANGED <<ledger, outbox>>
         ELSE IF ~accepted
         THEN /\ test_result' = Append(test_result, [campaign |-> c, outcome |-> "failed"])
              /\ UNCHANGED <<ledger, outbox>>
         ELSE /\ outbox' = outbox (+) SetToBag({[to |-> NoSubscriberId, campaign |-> c]})
              /\ TestEmailAfterSend(c)
    /\ UNCHANGED <<campaigns, target_categories, target_subscribers, subscribers,
                   subscription_interests, clock, callVars, histVars, resolved,
                   responses, templates>>

\* Deleting a subscriber in the admin (NewsletterSubscriberAdmin keeps the
\* default delete action): the row, its many-to-many rows and, by
\* on_delete=CASCADE (models.py lines 274-278), its activities go.
delete_subscriber(s) ==
    /\ envOps < MaxEnvOps
    /\ s \in DOMAIN subscribers
    /\ subscribers' = [t \in DOMAIN subscribers \ {s} |-> subscribers[t]]
    /\ subscription_interests' = [subscription_interests EXCEPT ![s] = {}]
    /\ target_subscribers' = [c \in DOMAIN target_subscribers |-> target_subscribers[c] \ {s}]
    /\ ledger' = [a \in {b \in BagToSet(ledger) : b.subscriber # s} |-> ledger[a]]
    /\ envOps' = envOps + 1
    /\ UNCHANGED <<campaigns, target_categories, outbox, clock, callVars,
                   recipients, attempted, failed, starts, resolved, test_result, responses, templates>>
    /\ ObserveStore

\* Deleting one activity in the admin: NewsletterActivityAdmin (admin.py
\* lines 254-293) refuses add and change, not delete.
delete_activity(a) ==
    /\ envOps < MaxEnvOps
    /\ BagIn(a, ledger)
    /\ ledger' = ledger (-) SetToBag({a})
    /\ envOps' = envOps + 1
    /\ UNCHANGED <<campaigns, target_categories, target_subscribers, subscribers,
                   subscription_interests, outbox, clock, callVars, histVars,
                   resolved, test_result, responses, templates>>

\* A campaign in any status with the default rule, or a draft targeting
\* categories and a list, over two eligible subscribers.
InitAdmin ==
    /\ \E st \in CAMPAIGN_STATUS, rule \in {DefaultRule, OverlapRule} :
          /\ st # "draft" => rule = DefaultRule
          /\ campaigns = [c \in {ExistingCampaign} |-> EmailCampaign(st, rule.all)]
          /\ target_categories = [c \in {ExistingCampaign} |-> rule.cats]
          /\ target_subscribers = [c \in {ExistingCampaign} |-> rule.subs]
    /\ subscribers = [s \in InitSubIds |-> NewsletterSubscriber("active", TRUE)]
    /\ subscription_interests = [s \in SubIds |-> InitialInterests(s)]
    /\ InitCallers
    /\ templates = <<>>

\* The send, with the admin operations next to it.  A fetched subscriber
\* that was deleted meanwhile makes the activity insert fail.
NextAdmin ==
    \/ \E p \in Procs, c \in CampaignIds : MayCall(p) /\ send_campaign_load(p, c)
    \/ \E p \in Procs : send_campaign_exists(p)
    \/ \E p \in Procs : send_campaign_save_sending(p)
    \/ \E p \in Procs : send_campaign_iterate(p)
    \/ \E p \in Procs : deliver_sent(p)
    \/ \E p \in Procs :
          /\ cache[p] # <<>>
          /\ Head(cache[p]).id \notin DOMAIN subscribers
          /\ deliver_ledger_error(p)
    \/ \E p \in Procs : send_campaign_finish(p)
    \/ \E c \in CampaignIds : duplicate_campaign(c)
    \/ \E c \in CampaignIds, accepted \in BOOLEAN : send_test_email(c, accepted)
    \/ \E s \in SubIds : delete_subscriber(s)
    \/ \E a \in BagToSet(ledger) : delete_activity(a)

SpecAdmin == InitAdmin /\ [][NextAdmin]_vars

\* ---------------------------------------------------------------- campaign statistics
\* Rates are kept in tenths of a percent (40.0 is 400).
\* Changed: the quotient is cut after the first decimal instead of rounded.
TruncatedTenths(x, total) == {(1000 * x) \div total}

\* round((x / total) * 100, 1) (models.py lines 200, 205, 210, 215): the
\* one-decimal value nearest to the float product.  When 100 * x / total
\* lies exactly between two one-decimal values, the result depends on the
\* rounding error of the float division and product: either neighbour.
RoundedTenths(x, total) ==
    LET q == (1000 * x) \div total
        r == (1000 * x) % total
    IN IF 2 * r < total THEN {q}
       ELSE IF 2 * r > total THEN {q + 1}
       ELSE {q, q + 1}

get_open_rate(row) ==
    IF row.total_sent > 0 THEN RoundedTenths(row.total_opened, row.total_sent) ELSE {0}

get_click_rate(row) ==
    IF row.total_sent > 0 THEN RoundedTenths(row.total_clicked, row.total_sent) ELSE {0}

get_unsubscribe_rate(row) ==
    IF row.total_sent > 0 THEN RoundedTenths(row.total_unsubscribed, row.total_sent) ELSE {0}

get_delivery_rate(row) ==
    IF row.total_recipients > 0
      THEN RoundedTenths(row.total_delivered, row.total_recipients)
      ELSE {0}

\* What a read-only request returned: its kind, the id it was about and the
\* rates it computed.
Response(kind, id, rates) == [kind |-> kind, id |-> id, rates |-> rates]
NoRates == [n \in {} |-> 0]

\* NewsletterService.get_campaign_stats (services.py lines 212-233): the
\* stored counters with the open, click and delivery rates, or None.
get_campaign_stats(c) ==
    /\ envOps < MaxEnvOps
    /\ envOps' = envOps + 1
    /\ IF c \notin DOMAIN campaigns
         THEN responses' = Append(responses, Response("no_stats", c, NoRates))
         ELSE \E o \in get_open_rate(campaigns[c]), k \in get_click_rate(campaigns[c]),
                 d \in get_delivery_rate(campaigns[c]) :
                 responses' = Append(responses,
                     Response("stats", c,
                              [n \in {"open", "click", "delivery"} |->
                                  IF n = "open" THEN o ELSE IF n = "click" THEN k ELSE d]))
    /\ UNCHANGED <<dbVars, callVars, histVars, resolved, test_result, templates>>

\* A reader of EmailCampaign.get_unsubscribe_rate (models.py lines 208-211).
read_unsubscribe_rate(c) ==
    /\ envOps < MaxEnvOps
    /\ envOps' = envOps + 1
    /\ c \in DOMAIN campaigns
    /\ \E u \in get_unsubscribe_rate(campaigns[c]) :
          responses' = Append(responses,
              Response("unsubscribe_rate", c, [n \in {"unsubscribe"} |-> u]))
    /\ UNCHANGED <<dbVars, callVars, histVars, resolved, test_result, templates>>

\* One sent campaign whose counters are drawn from 0..MaxCounter.
CampaignWithCounters(x, total) ==
    [EmailCampaign("sent", TRUE) EXCEPT
        !.sent_at = 1,
        !.total_recipients = total,
        !.total_sent = total,
        !.total_delivered = x,
        !.total_opened = x,
        !.total_clicked = x \div 2,
        !.total_unsubscribed = x \div 3]

InitStats ==
    /\ \E x \in 0..MaxCounter, total \in 0..MaxCounter :
          campaigns = [c \in {ExistingCampaign} |-> CampaignWithCounters(x, total)]
    /\ target_categories = [c \in {ExistingCampaign} |-> DefaultRule.cats]
    /\ target_subscribers = [c \in {ExistingCampaign} |-> DefaultRule.subs]
    /\ subscribers = [s \in InitSubIds |-> NewsletterSubscriber("active", TRUE)]
    /\ subscription_interests = [s \in SubIds |-> InitialInterests(s)]
    /\ InitCallers
    /\ templates = <<>>

NextStats ==
    \/ \E c \in CampaignIds : get_campaign_stats(c)
    \/ \E c \in CampaignIds : read_unsubscribe_rate(c)

SpecStats == InitStats /\ [][NextStats]_vars

\* ---------------------------------------------------------------- ways out of a subscription
\* NewsletterSubscriberAdmin.deactivate_subscribers (admin.py lines 83-85)
\* and the bulk action of the management page: queryset.update(
\* status='unsubscribed') writes the status column only.
deactivate_subscribers(S) ==
    /\ envOps < MaxEnvOps
    /\ S # {} /\ S \subseteq DOMAIN subscribers
    /\ subscribers' = [s \in DOMAIN subscribers |->
          IF s \in S THEN [subscribers[s] EXCEPT !.status = "unsubscribed"]
          ELSE subscribers[s]]
    /\ envOps' = envOps + 1
    /\ UNCHANGED <<resolved, test_result, responses, templates>>
    /\ UNCHANGED <<campaigns, target_categories, target_subscribers,
                   subscription_interests, ledger, outbox, clock, callVars,
                   recipients, attempted, failed, starts>>
    /\ ObserveStore

\* UnsubscribeSubscriberView.post (views_backup.py lines 282-295): the row
\* is loaded, its status set and saved; a missing row is a 404 caught by the
\* handler.
UnsubscribeSubscriberView_post(s) ==
    /\ envOps < MaxEnvOps
    /\ subscribers' = IF s \in DOMAIN subscribers
                        THEN [subscribers EXCEPT ![s].status = "unsubscribed"]
                        ELSE subscribers
    /\ envOps' = envOps + 1
    /\ UNCHANGED <<resolved, test_result, responses, templates>>
    /\ UNCHANGED <<campaigns, target_categories, target_subscribers,
                   subscription_interests, ledger, outbox, clock, callVars,
                   recipients, attempted, failed, starts>>
    /\ ObserveStore

\* UnsubscribeView.get (views_backup.py lines 347-350), the target of
\* get_unsubscribe_url (models.py lines 89-90, urls.py line 8): the page is
\* rendered; the token is not looked up.  A subscriber's token stands for
\* its id (subscription_token is unique, models.py line 29).
UnsubscribeView_get(token) ==
    /\ envOps < MaxEnvOps
    /\ envOps' = envOps + 1
    /\ responses' = Append(responses, Response("unsubscribe_page", token, NoRates))
    /\ UNCHANGED <<dbVars, callVars, histVars, resolved, test_result, templates>>

\* Subscribers that never unsubscribed: active or bounced, verified or not.
InitSubscribers ==
    /\ campaigns = [c \in {ExistingCampaign} |-> EmailCampaign("draft", DefaultRule.all)]
    /\ target_categories = [c \in {ExistingCampaign} |-> DefaultRule.cats]
    /\ target_subscribers = [c \in {ExistingCampaign} |-> DefaultRule.subs]
    /\ subscribers \in [InitSubIds ->
          {NewsletterSubscriber(st, v) : st \in {"active", "bounced"}, v \in BOOLEAN}]
    /\ subscription_interests = [s \in SubIds |-> InitialInterests(s)]
    /\ InitCallers
    /\ templates = <<>>

NextSubscribers ==
    \/ Subscribe
    \/ \E s \in SubIds : unsubscribe(s)
    \/ \E S \in SUBSET SubIds : activate_subscribers(S)
    \/ \E S \in SUBSET SubIds : deactivate_subscribers(S)
    \/ \E s \in SubIds : UnsubscribeSubscriberView_post(s)
    \/ \E s \in SubIds, st \in SUBSCRIPTION_STATUS, v \in BOOLEAN :
          /\ s \in DOMAIN subscribers
          /\ EditSubscriber(s, st, v, subscription_interests[s])
    \/ \E token \in SubIds : UnsubscribeView_get(token)

SpecSubscribers == InitSubscribers /\ [][NextSubscribers]_vars

\* ---------------------------------------------------------------- email templates
\* Two of the TEMPLATE_TYPES (models.py lines 222-229).
TEMPLATE_TYPES == {"newsletter", "welcome"}

\* An EmailTemplate row (models.py lines 219-256); its pk is its place in
\* the table.
EmailTemplate(template_type, is_default) ==
    [template_type |-> template_type, is_default |-> is_default]

\* Changed: the other defaults are left as they are.
ClearNothing(rows, pk, template_type) == rows

\* admin.py lines 247-250: filter(template_type=..., is_default=True)
\* .exclude(pk=obj.pk).update(is_default=False)
ClearOtherDefaults(rows, pk, template_type) ==
    [i \in DOMAIN rows |->
        IF rows[i].template_type = template_type /\ rows[i].is_default /\ i # pk
          THEN [rows[i] EXCEPT !.is_default = FALSE]
          ELSE rows[i]]

\* EmailTemplateAdmin.save_model (admin.py lines 244-251) for the form
\* values (template_type, is_default): pk is a stored template, or the next
\* free pk for a template being created (obj.pk is None until the save, so
\* the exclude leaves nothing out).  The response names the saved template;
\* the latest response replaces the one before.
save_model(pk, template_type, is_default) ==
    /\ pk \in 1..MaxTemplates
    /\ pk \in DOMAIN templates \/ pk = Len(templates) + 1
    /\ LET cleared == IF is_default
                        THEN ClearOtherDefaults(templates, pk, template_type)
                        ELSE templates
       IN templates' = IF pk \in DOMAIN templates
                          THEN [cleared EXCEPT ![pk] = EmailTemplate(template_type, is_default)]
                          ELSE Append(cleared, EmailTemplate(template_type, is_default))
    /\ responses' = <<Response("template_saved", pk, NoRates)>>
    /\ UNCHANGED <<dbVars, callVars, histVars, envOps, resolved, test_result>>

\* The defaults of a type in a table.
Defaults(rows, template_type) ==
    {i \in DOMAIN rows : rows[i].template_type = template_type /\ rows[i].is_default}

\* Any table of at most MaxTemplates templates with at most one default
\* template per type.
InitTemplates ==
    /\ campaigns = [c \in {ExistingCampaign} |-> EmailCampaign("draft", DefaultRule.all)]
    /\ target_categories = [c \in {ExistingCampaign} |-> DefaultRule.cats]
    /\ target_subscribers = [c \in {ExistingCampaign} |-> DefaultRule.subs]
    /\ subscribers = [s \in InitSubIds |-> NewsletterSubscriber("active", TRUE)]
    /\ subscription_interests = [s \in SubIds |-> InitialInterests(s)]
    /\ InitCallers
    /\ \E n \in 0..MaxTemplates :
          /\ templates \in [1..n ->
                {EmailTemplate(ty, d) : ty \in TEMPLATE_TYPES, d \in BOOLEAN}]
          /\ \A ty \in TEMPLATE_TYPES : Cardinality(Defaults(templates, ty)) <= 1

NextTemplates ==
    \/ \E ty \in TEMPLATE_TYPES, d \in BOOLEAN : save_model(Len(templates) + 1, ty, d)
    \/ \E pk \in DOMAIN templates, ty \in TEMPLATE_TYPES, d \in BOOLEAN :
          save_model(pk, ty, d)

SpecTemplates == InitTemplates /\ [][NextTemplates]_vars

\* ---------------------------------------------------------------- audience resolution alone
\* A direct call of _get_target_subscribers(campaign) whose queryset is
\* evaluated at once.
get_target_subscribers(c) ==
    /\ c \in DOMAIN campaigns
    /\ resolved.campaign = NoCampaignId
    /\ resolved' = [campaign |-> c, audience |-> Audience(c)]
    /\ UNCHANGED <<dbVars, callVars, histVars, envOps, test_result, responses, templates>>

\* Every targeting rule over the categories and two subscribers, against
\* every store of two subscribers with any status, verification and interests.
ResolveSubIds == {1, 2}

InitResolve ==
    /\ \E all \in BOOLEAN :
          campaigns = [c \in {ExistingCampaign} |-> EmailCampaign("draft", all)]
    /\ target_categories \in [{ExistingCampaign} -> SUBSET Categories]
    /\ target_subscribers \in [{ExistingCampaign} -> SUBSET ResolveSubIds]
    /\ subscribers \in [ResolveSubIds ->
          {NewsletterSubscriber(st, v) :
              st \in {"active", "unsubscribed", "bounced"}, v \in BOOLEAN}]
    /\ subscription_interests \in [SubIds -> SUBSET Categories]
    /\ \A s \in SubIds \ ResolveSubIds : subscription_interests[s] = {}
    /\ InitCallers
    /\ templates = <<>>

NextResolve == \E c \in CampaignIds : get_target_subscribers(c)

SpecResolve == InitResolve /\ [][NextResolve]_vars

\* ---------------------------------------------------------------- properties of the audience
Eligible(s) ==
    /\ s \in DOMAIN subscribers
    /\ subscribers[s].status = "active"
    /\ subscribers[s].is_verified

HasResolved == resolved.campaign # NoCampaignId
Rule == [all |-> campaigns[resolved.campaign].send_to_all,
         cats |-> target_categories[resolved.campaign],
         subs |-> target_subscribers[resolved.campaign]]
Interested(s) == subscription_interests[s] \cap Rule.cats # {}

\* C4: whatever the targeting rule and the store, the resolved audience holds
\* only subscribers that are active and verified; an explicit
\* target_subscribers entry that is not eligible is not added.
AudienceOnlyEligible ==
    HasResolved => \A s \in resolved.audience : Eligible(s)

AudienceOnlyEligibleWitness ==
    /\ HasResolved
    /\ ~Rule.all
    /\ resolved.audience # {}
    /\ \E s \in Rule.subs : ~Eligible(s) /\ s \notin resolved.audience

CategoriesOverrideList ==
    (HasResolved /\ ~Rule.all) =>
        /\ Rule.cats # {} =>
              resolved.audience = {s \in DOMAIN subscribers : Eligible(s) /\ Interested(s)}
        /\ (Rule.cats = {} /\ Rule.subs # {}) =>
              resolved.audience = {s \in DOMAIN subscribers : Eligible(s) /\ s \in Rule.subs}

\* C6 amended: with send_to_all false and a target category the audience is
\* the eligible subscribers interested in a target category and, when an
\* explicit list is also set, in that list as well; with no category and an
\* explicit list it is the eligible subscribers in the list.
CategoriesAndListIntersect ==
    (HasResolved /\ ~Rule.all) =>
        /\ (Rule.cats # {} /\ Rule.subs = {}) =>
              resolved.audience = {s \in DOMAIN subscribers : Eligible(s) /\ Interested(s)}
        /\ (Rule.cats # {} /\ Rule.subs # {}) =>
              resolved.audience =
                  {s \in DOMAIN subscribers : Eligible(s) /\ Interested(s) /\ s \in Rule.subs}
        /\ (Rule.cats = {} /\ Rule.subs # {}) =>
              resolved.audience = {s \in DOMAIN subscribers : Eligible(s) /\ s \in Rule.subs}

CategoriesAndListIntersectWitness ==
    /\ HasResolved /\ ~Rule.all
    /\ Rule.cats # {} /\ Rule.subs # {}
    /\ resolved.audience # {}
    /\ \E s \in DOMAIN subscribers : Eligible(s) /\ Interested(s) /\ s \notin resolved.audience

\* ---------------------------------------------------------------- properties of send_campaign
EmailSent(s, c) == NewsletterActivity("email_sent", s, c)
Starting(p) == calls'[p] = calls[p] + 1
Finishing(p) == pc[p] = "deliver" /\ pc'[p] = "idle"

\* C1: of the send_campaign calls racing on one draft campaign, only one
\* saves it as 'sending' and delivers; no subscriber gets the campaign twice.
RaceHasOneWinner ==
    /\ \A c \in CampaignIds : starts[c] <= 1
    /\ \A c \in CampaignIds, s \in SubIds :
          CopiesIn([to |-> s, campaign |-> c], outbox) <= 1

\* C2: a call on a stored campaign that is not a draft returns the
\* invalid-state failure in that step and writes nothing: campaign rows,
\* subscriber rows, ledger and sent mail stay as they were, however often
\* the call is repeated.
RejectedCallChangesNothing ==
    [][\A p \in Procs :
          (/\ Starting(p)
           /\ cid'[p] \in DOMAIN campaigns
           /\ campaigns[cid'[p]].status # "draft")
          => /\ result'[p] = "invalid_state"
             /\ pc'[p] = "idle"
             /\ UNCHANGED dbVars]_vars

RejectedCallChangesNothingWitness ==
    /\ \A p \in Procs : result[p] = "invalid_state" /\ cid[p] = ExistingCampaign
    /\ campaigns[ExistingCampaign].status = "paused"
    /\ campaigns[ExistingCampaign].total_recipients = 0

\* C3: when the audience of a draft turns out empty the call returns a
\* failure in that step; the campaign row (status, total_recipients,
\* total_sent, sent_at) is not written, no mail is sent and no ledger row is
\* added.
EmptyAudienceChangesNothing ==
    [][\A p \in Procs :
          (/\ pc[p] = "exists"
           /\ pc'[p] # "exists"
           /\ ~\E s \in DOMAIN subscribers :
                 /\ Eligible(s)
                 /\ qs[p].by_categories =>
                       subscription_interests[s] \cap target_categories[cid[p]] # {}
                 /\ qs[p].by_subscribers => s \in target_subscribers[cid[p]])
          => /\ result'[p] = "empty_audience"
             /\ pc'[p] = "idle"
             /\ UNCHANGED dbVars
             /\ UNCHANGED starts]_vars

EmptyAudienceChangesNothingWitness ==
    \E p \in Procs :
        /\ result[p] = "empty_audience"
        /\ campaigns[cid[p]].status = "draft"
        /\ campaigns[cid[p]].sent_at = NullTime
        /\ ledger = EmptyBag
        /\ outbox = EmptyBag

\* C7: a send of a send_to_all campaign in which no transport call fails and
\* during which the set of active, verified subscribers does not change
\* ends by storing status 'sent' with total_recipients = total_sent = the
\* number of active, verified subscribers, whatever categories or explicit
\* subscribers the campaign also names.
SendToAllReachesEveryone ==
    [][\A p \in Procs :
          (/\ Finishing(p)
           /\ campaign[p].send_to_all
           /\ failed[p] = {}
           /\ stable[p])
          => LET stored == campaigns'[cid[p]]
                 everyone == Cardinality({s \in DOMAIN subscribers : Eligible(s)})
             IN /\ result'[p] = "success"
                /\ stored.status = "sent"
                /\ stored.total_recipients = everyone
                /\ stored.total_sent = everyone]_vars

SendToAllReachesEveryoneWitness ==
    \E p \in Procs :
        /\ result[p] = "success"
        /\ campaigns[cid[p]].send_to_all
        /\ starts[cid[p]] = 1
        /\ target_categories[cid[p]] # {}
        /\ target_subscribers[cid[p]] = {1}
        /\ campaigns[cid[p]].status = "sent"
        /\ campaigns[cid[p]].total_sent = 2
        /\ campaigns[cid[p]].total_recipients = 2

\* C8: a campaign stored as 'sent' has total_sent <= total_recipients.
SentAtMostRecipients ==
    \A c \in DOMAIN campaigns :
        campaigns[c].status = "sent" =>
            campaigns[c].total_sent <= campaigns[c].total_recipients

\* C9: when the only send of a campaign finishes after fetching n recipients
\* of which k failed in the transport, the campaign is stored as 'sent' with
\* total_sent = n - k and the ledger holds one 'email_sent' row of that
\* campaign for each recipient that did not fail and none for the others.
SingleSendCountsSuccesses ==
    [][\A p \in Procs :
          (Finishing(p) /\ starts[cid[p]] = 1)
          => LET c == cid[p]
                 n == Cardinality(recipients[p])
                 k == Cardinality(failed[p])
             IN /\ result'[p] = "success"
                /\ campaigns'[c].status = "sent"
                /\ campaigns'[c].total_sent = n - k
                /\ \A s \in SubIds :
                      CopiesIn(EmailSent(s, c), ledger') =
                          IF s \in recipients[p] \ failed[p] THEN 1 ELSE 0]_vars

SingleSendCountsSuccessesWitness ==
    \E c \in DOMAIN campaigns :
        /\ starts[c] = 1
        /\ campaigns[c].status = "sent"
        /\ campaigns[c].total_recipients = 2
        /\ campaigns[c].total_sent = 1
        /\ \E s \in SubIds : CopiesIn(EmailSent(s, c), ledger) = 1
        /\ \E p \in Procs : result[p] = "success" /\ cid[p] = c

\* C10: a transport failure for one recipient leaves that subscriber's row
\* (total_emails_sent), the ledger and sent_count as they were, keeps the
\* call running with the remaining fetched rows, and the call still returns
\* success after attempting every fetched recipient.
TransportFailureIsIsolated ==
    [][\A p \in Procs :
          /\ (pc[p] = "deliver" /\ failed'[p] # failed[p] /\ failed[p] \subseteq failed'[p])
             => /\ subscribers' = subscribers
                /\ ledger' = ledger
                /\ sent_count' = sent_count
                /\ result'[p] = "running"
                /\ pc'[p] = "deliver"
                /\ cache'[p] = Tail(cache[p])
          /\ Finishing(p)
             => /\ result'[p] = "success"
                /\ attempted[p] = recipients[p]]_vars

TransportFailureIsIsolatedWitness ==
    \E p \in Procs :
        /\ result[p] = "success"
        /\ starts[cid[p]] = 1
        /\ envOps = 0
        /\ campaigns[cid[p]].total_recipients = 2
        /\ subscribers[2].total_emails_sent = 0
        /\ CopiesIn(EmailSent(2, cid[p]), ledger) = 0
        /\ subscribers[1].total_emails_sent = 1
        /\ CopiesIn(EmailSent(1, cid[p]), ledger) = 1

\* ---------------------------------------------------------------- properties of the campaign life cycle
\* C11: once the campaign is stored as 'sending' it is eventually stored as
\* 'sent', whichever deliveries, ledger writes and subscriber saves fail
\* for its recipients.
SendingLeadsToSent ==
    (campaigns[ExistingCampaign].status = "sending")
        ~> (campaigns[ExistingCampaign].status = "sent")

SendingLeadsToSentWitness ==
    /\ campaigns[ExistingCampaign].status = "sent"
    /\ campaigns[ExistingCampaign].total_recipients = 2
    /\ starts[ExistingCampaign] = 1
    /\ \A p \in Procs : pc[p] = "idle"
    /\ \E s, t \in DOMAIN subscribers :
          /\ s # t
          /\ CopiesIn([to |-> s, campaign |-> ExistingCampaign], outbox) = 1
          /\ CopiesIn(EmailSent(s, ExistingCampaign), ledger) = 0
          /\ CopiesIn(EmailSent(t, ExistingCampaign), ledger) = 1
          /\ subscribers[t].total_emails_sent = 0

\* C12: no delivery of a campaign is attempted, and no 'email_sent' row or
\* mail of it is added, in a step taken while the campaign is stored as
\* 'sent'.
DeliveriesPrecedeSent ==
    [][\A c \in DOMAIN campaigns :
          campaigns[c].status = "sent"
          => /\ \A p \in Procs :
                   (pc[p] = "deliver" /\ cid[p] = c /\ cache[p] # <<>>)
                   => cache'[p] = cache[p]
             /\ \A s \in SubIds :
                   /\ CopiesIn(EmailSent(s, c), ledger') = CopiesIn(EmailSent(s, c), ledger)
                   /\ CopiesIn([to |-> s, campaign |-> c], outbox') =
                         CopiesIn([to |-> s, campaign |-> c], outbox)]_vars

\* C13: a send_campaign call on a stored campaign in status 'scheduled' whose
\* audience is not empty is not rejected: it goes on to save 'sending'.
ScheduledSendAccepted ==
    [][\A p \in Procs :
          (/\ Starting(p)
           /\ cid'[p] \in DOMAIN campaigns
           /\ campaigns[cid'[p]].status = "scheduled"
           /\ Audience(cid'[p]) # {})
          => /\ result'[p] = "running"
             /\ pc'[p] = "exists"]_vars

\* C14: the stored status of a campaign changes only along draft->sending,
\* scheduled->sending, sending->sent, draft->cancelled, scheduled->cancelled.
LegalTransitions ==
    {<<"draft", "sending">>, <<"scheduled", "sending">>, <<"sending", "sent">>,
     <<"draft", "cancelled">>, <<"scheduled", "cancelled">>}

StatusFollowsLifeCycle ==
    [][\A c \in DOMAIN campaigns :
          \/ campaigns'[c].status = campaigns[c].status
          \/ <<campaigns[c].status, campaigns'[c].status>> \in LegalTransitions]_vars

\* C15: a subscriber stored as 'unsubscribed' stays 'unsubscribed' in every
\* step that is not an operation on the subscriber store (such as an
\* explicit re-activation); in particular a running send does not change it.
UnsubscribedStaysUnsubscribed ==
    [][\A s \in DOMAIN subscribers :
          (subscribers[s].status = "unsubscribed" /\ envOps' = envOps)
          => subscribers'[s].status = "unsubscribed"]_vars

\* ---------------------------------------------------------------- properties of the admin operations
MailsTo(s) ==
    Total([c \in CampaignIds |-> CopiesIn([to |-> s, campaign |-> c], outbox)], CampaignIds)

TestCall == Len(test_result') = Len(test_result) + 1
LastTest == test_result'[Len(test_result')]

Counters(row) ==
    <<row.total_recipients, row.total_sent, row.total_delivered, row.total_bounced,
      row.total_opened, row.total_clicked, row.total_unsubscribed,
      row.total_spam_complaints>>

\* C16: when every campaign was sent at most once and no call is running,
\* each stored subscriber's total_emails_sent equals the number of campaign
\* mails delivered to them: sends of different campaigns that share a
\* subscriber lose no increment.
NoLostIncrement ==
    (/\ \A p \in Procs : pc[p] = "idle"
     /\ \A c \in CampaignIds : starts[c] <= 1)
    => \A s \in DOMAIN subscribers : subscribers[s].total_emails_sent = MailsTo(s)

\* C17: a send_test_email call, whatever its outcome, leaves every campaign
\* row and its targeting, every subscriber row and the activity ledger as
\* they were.
TestEmailPersistsNothing ==
    [][TestCall =>
          UNCHANGED <<campaigns, target_categories, target_subscribers,
                      subscribers, subscription_interests, ledger>>]_vars

TestEmailPersistsNothingWitness ==
    /\ test_result # <<>>
    /\ test_result[1].campaign = ExistingCampaign
    /\ CopiesIn([to |-> NoSubscriberId, campaign |-> ExistingCampaign], outbox) = 1
    /\ campaigns[ExistingCampaign].status = "sent"
    /\ campaigns[ExistingCampaign].total_sent = 2
    /\ BagCardinality(ledger) = 2

\* C18: send_test_email on a stored campaign, in any status, whose message
\* the transport accepts sends one mail to the test address and returns
\* success; on a campaign id that is not stored it returns not-found and
\* sends nothing.
TestEmailSucceeds ==
    [][TestCall =>
          IF LastTest.campaign \in DOMAIN campaigns
            THEN outbox' # outbox
                 => /\ outbox' = outbox (+)
                          SetToBag({[to |-> NoSubscriberId, campaign |-> LastTest.campaign]})
                    /\ LastTest.outcome = "success"
            ELSE /\ LastTest.outcome = "not_found"
                 /\ outbox' = outbox]_vars

\* C19: a ledger row that exists in one state exists in the next one, as
\* many times.
LedgerAppendOnly ==
    [][\A a \in BagToSet(ledger) : CopiesIn(a, ledger') >= CopiesIn(a, ledger)]_vars

\* C20: a stored draft for which no send ever started has all eight
\* counters at zero.
UnsentDraftHasZeroCounters ==
    \A c \in DOMAIN campaigns :
        (campaigns[c].status = "draft" /\ starts[c] = 0)
        => Counters(campaigns[c]) = <<0, 0, 0, 0, 0, 0, 0, 0>>

\* ---------------------------------------------------------------- properties of the campaign row
\* C21: sent_at is not null exactly when the stored status is 'sent', and
\* it changes only once, from null, in the step that moves the stored
\* status from 'sending' to 'sent'.
SentAtWrittenOnce ==
    /\ [](\A c \in DOMAIN campaigns :
            (campaigns[c].sent_at # NullTime) <=> (campaigns[c].status = "sent"))
    /\ [][\A c \in DOMAIN campaigns :
            campaigns'[c].sent_at # campaigns[c].sent_at
            => /\ campaigns[c].sent_at = NullTime
               /\ campaigns[c].status = "sending"
               /\ campaigns'[c].status = "sent"]_vars

\* C22: once a send of a campaign has started, no step lowers any of its
\* eight stored counters.
CountersNeverDecrease ==
    [][\A c \in DOMAIN campaigns :
          starts[c] >= 1
          => \A i \in 1..8 : Counters(campaigns'[c])[i] >= Counters(campaigns[c])[i]]_vars

\* C23: a stored campaign that began as a draft with zero counters is never
\* half-written: it is 'sent' exactly when sent_at is set, total_sent is
\* still zero while it is not 'sent', and total_recipients is still zero
\* while it is a draft.
SendNeverHalfWritten ==
    \A c \in DOMAIN campaigns :
        /\ (campaigns[c].status = "sent") <=> (campaigns[c].sent_at # NullTime)
        /\ campaigns[c].status # "sent" => campaigns[c].total_sent = 0
        /\ campaigns[c].status = "draft" => campaigns[c].total_recipients = 0
        /\ campaigns[c].status \in {"draft", "sending", "sent"}

SendNeverHalfWrittenWitness ==
    /\ campaigns[ExistingCampaign].status = "sending"
    /\ starts[ExistingCampaign] = 2
    /\ \E p \in Procs : result[p] = "success" /\ cid[p] = ExistingCampaign
    /\ outbox # EmptyBag

\* ---------------------------------------------------------------- properties of the statistics
Reading == Len(responses') = Len(responses) + 1
LastResponse == responses'[Len(responses')]

\* t tenths of a percent is a one-decimal value nearest to 100 * x / total,
\* and 0 when total is 0.
NearestTenth(t, x, total) ==
    IF total = 0 THEN t = 0
    ELSE /\ 2 * (t * total - 1000 * x) <= total
         /\ 2 * (1000 * x - t * total) <= total

\* C24: the open, click and unsubscribe rates are 100 * x / total_sent
\* rounded to one decimal (x the matching counter) and 0 when total_sent is
\* 0, the delivery rate is 100 * total_delivered / total_recipients rounded
\* to one decimal and 0 when total_recipients is 0; 40 opened of 100 sent is
\* 40.0; reading them changes no stored row.
RatesAreRoundedPercentages ==
    [][Reading =>
          /\ UNCHANGED dbVars
          /\ LastResponse.kind = "stats" =>
                LET row == campaigns[LastResponse.id]
                    rates == LastResponse.rates
                IN /\ NearestTenth(rates["open"], row.total_opened, row.total_sent)
                   /\ NearestTenth(rates["click"], row.total_clicked, row.total_sent)
                   /\ NearestTenth(rates["delivery"], row.total_delivered,
                                   row.total_recipients)
                   /\ (row.total_sent = 100 /\ row.total_opened = 40)
                         => rates["open"] = 400
          /\ LastResponse.kind = "unsubscribe_rate" =>
                LET row == campaigns[LastResponse.id]
                IN NearestTenth(LastResponse.rates["unsubscribe"],
                                row.total_unsubscribed, row.total_sent)]_vars

RatesAreRoundedPercentagesWitness ==
    /\ responses # <<>>
    /\ responses[1].kind = "stats"
    /\ campaigns[ExistingCampaign].total_sent = 100
    /\ campaigns[ExistingCampaign].total_opened = 40
    /\ responses[1].rates["open"] = 400
    /\ responses[1].rates["click"] = 200
    /\ responses[1].rates["delivery"] = 400

\* ---------------------------------------------------------------- properties of unsubscribing
\* The link of subscriber s has just been followed.
FollowedLink(s) ==
    /\ Reading
    /\ LastResponse.kind = "unsubscribe_page"
    /\ LastResponse.id = s
    /\ s \in DOMAIN subscribers

\* C25: following the unsubscribe link built from a subscriber's token
\* leaves that subscriber in status 'unsubscribed' (and doing so again
\* changes nothing more).
FollowedLinkUnsubscribes ==
    [][\A s \in SubIds :
          FollowedLink(s) => subscribers'[s].status = "unsubscribed"]_vars

\* C29: in every state a subscriber in status 'unsubscribed' has an
\* unsubscribed_at and at least one 'unsubscription' ledger record.
UnsubscribedHasDateAndRecord ==
    \A s \in DOMAIN subscribers :
        subscribers[s].status = "unsubscribed" =>
            /\ subscribers[s].unsubscribed_at # NullTime
            /\ BagIn(NewsletterActivity("unsubscription", s, NoCampaignId), ledger)

\* ---------------------------------------------------------------- properties of one delivery
\* The recipients of campaign c that have the 'email_sent' record and the
\* increment of total_emails_sent.
FullyRecorded(c) ==
    {s \in DOMAIN subscribers :
        /\ BagIn(EmailSent(s, c), ledger)
        /\ subscribers[s].total_emails_sent = CopiesIn(EmailSent(s, c), ledger)}

\* C26: after the only send_campaign of a campaign has completed, whatever
\* failed on the way, each subscriber has as many 'email_sent' records of
\* the campaign as increments of total_emails_sent, and total_sent counts
\* the subscribers that have both.
RecordAndIncrementTogether ==
    \A c \in DOMAIN campaigns :
        (starts[c] = 1 /\ campaigns[c].status = "sent")
        => /\ \A s \in DOMAIN subscribers :
                 subscribers[s].total_emails_sent = CopiesIn(EmailSent(s, c), ledger)
           /\ campaigns[c].total_sent = Cardinality(FullyRecorded(c))

\* C27: a subscriber matching several target categories (and on the
\* explicit list) is fetched once by a send_campaign call, is counted once
\* in total_recipients, and gets at most one 'email_sent' record and one
\* increment from the only send of a campaign.
AudienceIsDeduplicated ==
    /\ \A p \in Procs : \A i, j \in DOMAIN cache[p] :
          i # j => cache[p][i].id # cache[p][j].id
    /\ \A c \in DOMAIN campaigns :
          starts[c] = 1 =>
            /\ campaigns[c].total_recipients = Cardinality(Audience(c))
            /\ \A s \in DOMAIN subscribers :
                  /\ CopiesIn(EmailSent(s, c), ledger) <= 1
                  /\ subscribers[s].total_emails_sent <= 1

AudienceIsDeduplicatedWitness ==
    /\ target_categories[ExistingCampaign] = {"finance", "tech"}
    /\ subscription_interests[2] = {"finance", "tech"}
    /\ 2 \in target_subscribers[ExistingCampaign]
    /\ starts[ExistingCampaign] = 1
    /\ campaigns[ExistingCampaign].status = "sent"
    /\ campaigns[ExistingCampaign].total_recipients = 1
    /\ CopiesIn(EmailSent(2, ExistingCampaign), ledger) = 1
    /\ subscribers[2].total_emails_sent = 1

\* ---------------------------------------------------------------- properties of the templates
\* C28: whatever sequence of save_model calls is applied to a table with at
\* most one default template per type, there is at most one default per
\* type, and a template just saved as default is the default of its type.
OneDefaultTemplatePerType ==
    /\ \A ty \in TEMPLATE_TYPES : Cardinality(Defaults(templates, ty)) <= 1
    /\ \A i \in DOMAIN responses :
          LET pk == responses[i].id
          IN (responses[i].kind = "template_saved" /\ templates[pk].is_default)
             => Defaults(templates, templates[pk].template_type) = {pk}

OneDefaultTemplatePerTypeWitness ==
    /\ responses # <<>>
    /\ responses[1].kind = "template_saved"
    /\ templates[responses[1].id].is_default
    /\ \E i \in DOMAIN templates :
          /\ i # responses[1].id
          /\ templates[i].template_type = templates[responses[1].id].template_type
    /\ \E i \in DOMAIN templates :
          /\ templates[i].template_type # templates[responses[1].id].template_type
          /\ templates[i].is_default

\* ---------------------------------------------------------------- properties of duplication
\* C30: duplicate_campaign leaves the stored campaigns and their targeting
\* as they were and adds a draft with sent_at null whose targeting, and so
\* its resolved audience, is that of the campaign it was copied from.
DuplicateKeepsTargeting ==
    [][\A new \in DOMAIN campaigns' \ DOMAIN campaigns :
          /\ \A c \in DOMAIN campaigns :
                /\ campaigns'[c] = campaigns[c]
                /\ target_categories'[c] = target_categories[c]
                /\ target_subscribers'[c] = target_subscribers[c]
          /\ campaigns'[new].status = "draft"
          /\ campaigns'[new].sent_at = NullTime
          /\ \E c \in DOMAIN campaigns :
                /\ campaigns'[new].send_to_all = campaigns[c].send_to_all
                /\ target_categories'[new] = target_categories[c]
                /\ target_subscribers'[new] = target_subscribers[c]
                /\ Audience(new)' = Audience(c)']_vars

====
